---- MODULE Spec2Model ----
(***************************************************************************)
(* Model of unit_to_srv.py: the conversion of a systemd unit (a sequence   *)
(* of key=value entries) into a dinit service description.                 *)
(*                                                                         *)
(* Text that the program inspects character by character (durations,      *)
(* space separated lists, signal names) is a sequence of one-character    *)
(* strings.  Keys are only compared for identity and are plain strings.   *)
(* A Python number is the triple <<days, seconds, microseconds>> in       *)
(* normal form, an exact image of the float as long as the float          *)
(* arithmetic is exact.                                                   *)
(***************************************************************************)
EXTENDS Integers, Sequences, FiniteSets, TLC

VARIABLES input_map, idx, output_map, comments, is_pidfile, has_type,
          pc, alias_files, target, warnings,
          time, time_pairs, tpc, pt, tret

mapvars == <<input_map, idx, output_map, comments, is_pidfile, has_type,
             pc, alias_files, target, warnings>>

timevars == <<time, time_pairs, tpc, pt, tret>>

vars == <<input_map, idx, output_map, comments, is_pidfile, has_type,
          pc, alias_files, target, warnings, time, time_pairs, tpc, pt, tret>>

----------------------------------------------------------------------------
(* Characters and strings                                                  *)

DigitChars == {"0", "1", "2", "3", "4", "5", "6", "7", "8", "9"}

\* "mu" stands for the one character U+03BC of the alias "μs".
AlphaChars ==
    {"a", "b", "c", "d", "e", "f", "g", "h", "i", "j", "k", "l", "m", "n",
     "o", "p", "q", "r", "s", "t", "u", "v", "w", "x", "y", "z", "mu",
     "A", "B", "C", "D", "E", "F", "G", "H", "I", "J", "K", "L", "M", "N",
     "O", "P", "Q", "R", "S", "T", "U", "V", "W", "X", "Y", "Z"}

isnumeric_ch(ch) == ch \in DigitChars

isalpha_ch(ch) == ch \in AlphaChars

\* str.isnumeric(): non-empty and every character numeric
isnumeric(s) == Len(s) > 0 /\ \A k \in 1..Len(s) : isnumeric_ch(s[k])

RECURSIVE lstrip(_)
lstrip(s) == IF s # <<>> /\ Head(s) = " " THEN lstrip(Tail(s)) ELSE s

RECURSIVE rstrip(_)
rstrip(s) ==
    IF s # <<>> /\ s[Len(s)] = " " THEN rstrip(SubSeq(s, 1, Len(s) - 1)) ELSE s

strip(s) == rstrip(lstrip(s))

\* str.split(" "): cut at every single space, empty tokens are kept
RECURSIVE split_from(_, _, _)
split_from(s, k, cur) ==
    IF k > Len(s) THEN <<cur>>
    ELSE IF s[k] = " " THEN <<cur>> \o split_from(s, k + 1, <<>>)
    ELSE split_from(s, k + 1, Append(cur, s[k]))

split(s) == split_from(s, 1, <<>>)

\* str.removeprefix('SIG')
removeprefix_SIG(s) ==
    IF Len(s) >= 3 /\ SubSeq(s, 1, 3) = <<"S", "I", "G">>
    THEN SubSeq(s, 4, Len(s)) ELSE s

\* float(mem) / int value of a digit string
RECURSIVE digits_value(_)
digits_value(s) ==
    IF s = <<>> THEN 0
    ELSE 10 * digits_value(SubSeq(s, 1, Len(s) - 1))
         + (CHOOSE n \in 0..9 : ToString(n) = s[Len(s)])

----------------------------------------------------------------------------
(* Python values held in output_map                                        *)

SecPerDay == 86400

MicroPerSec == 1000000

ZeroNum == <<0, 0, 0>>

\* normal form of days, seconds, microseconds
Norm(d, s, us) ==
    LET s2 == s + (us \div MicroPerSec)
    IN  <<d + (s2 \div SecPerDay), s2 % SecPerDay, us % MicroPerSec>>

NumAdd(a, b) == Norm(a[1] + b[1], a[2] + b[2], a[3] + b[3])

\* n * num / den seconds, for the factors of parse_time
NumScale(n, num, den) ==
    IF den = 1
    THEN Norm(n * (num \div SecPerDay), n * (num % SecPerDay), 0)
    ELSE Norm(0, 0, n * (MicroPerSec \div den))

PyStr(t) == [kind |-> "str", text |-> t, num |-> ZeroNum]

PyInt(n) == [kind |-> "int", text |-> <<>>, num |-> n]

PyFloat(n) == [kind |-> "float", text |-> <<>>, num |-> n]

kv(k, v) == [key |-> k, value |-> v]

----------------------------------------------------------------------------
(* parse_time                                                              *)

u_us == {<<"mu", "s">>, <<"u", "s">>, <<"u", "s", "e", "c">>}

u_ms == {<<"m", "s">>, <<"m", "s", "e", "c">>}

u_s == {<<"s">>, <<"s", "e", "c">>, <<"s", "e", "c", "o", "n", "d">>,
        <<"s", "e", "c", "o", "n", "d", "s">>}

u_m == {<<"m">>, <<"m", "i", "n">>, <<"m", "i", "n", "u", "t", "e">>,
        <<"m", "i", "n", "u", "t", "e", "s">>}

u_h == {<<"h">>, <<"h", "r">>, <<"h", "o", "u", "r">>,
        <<"h", "o", "u", "r", "s">>}

u_d == {<<"d">>, <<"d", "a", "y">>, <<"d", "a", "y", "s">>}

u_w == {<<"w">>, <<"w", "e", "e", "k">>, <<"w", "e", "e", "k", "s">>}

u_M == {<<"M">>, <<"m", "o", "n", "t", "h">>, <<"m", "o", "n", "t", "h", "s">>}

u_y == {<<"y">>, <<"y", "e", "a", "r">>, <<"y", "e", "a", "r", "s">>}

KnownUnits == u_us \cup u_ms \cup u_s \cup u_m \cup u_h \cup u_d \cup u_w
              \cup u_M \cup u_y

\* the factor of a unit as <<numerator, denominator>> seconds
UnitFactor(what) ==
    IF what \in u_us THEN <<1, 1000000>>
    ELSE IF what \in u_ms THEN <<1, 1000>>
    ELSE IF what \in u_s THEN <<1, 1>>
    ELSE IF what \in u_m THEN <<60, 1>>
    ELSE IF what \in u_h THEN <<3600, 1>>
    ELSE IF what \in u_d THEN <<86400, 1>>
    ELSE IF what \in u_w THEN <<604800, 1>>
    ELSE IF what \in u_M THEN <<2592000, 1>>
    ELSE <<31536000, 1>>

\* the locals of parse_time before the scan
pt_start ==
    [pos |-> 1, mem |-> <<>>, what |-> <<>>, letter |-> FALSE,
     times |-> <<>>, item |-> 1, sec |-> PyInt(ZeroNum), warns |-> 0]

\* one iteration of "for ch in time"
scan_char(f, ch) ==
    IF ch = " " THEN f
    ELSE IF isnumeric_ch(ch) THEN
        IF ~f.letter THEN [f EXCEPT !.mem = Append(@, ch)]
        ELSE [f EXCEPT !.times = Append(@, <<strip(f.what), strip(f.mem)>>),
                       !.mem = Append(@, ch),
                       !.what = <<>>,
                       !.letter = FALSE]
    ELSE IF isalpha_ch(ch) THEN
        [f EXCEPT !.what = Append(@, ch), !.letter = TRUE]
    ELSE f

\* "times.append([ what.strip(), mem.strip() ]) # Catch last entry"
catch_last(f) ==
    [f EXCEPT !.times = Append(@, <<strip(f.what), strip(f.mem)>>)]

\* float(mem) raises ValueError on the empty string
convert_raises(f, item) == item[1] \in KnownUnits /\ f.mem = <<>>

\* one iteration of "for item in times" that does not raise
convert_item(f, item) ==
    IF item[1] \in KnownUnits THEN
        LET fac == UnitFactor(item[1])
        IN  [f EXCEPT !.sec = PyFloat(NumAdd(f.sec.num,
                                 NumScale(digits_value(f.mem), fac[1], fac[2])))]
    ELSE [f EXCEPT !.warns = @ + 1]

RECURSIVE scan_all(_, _)
scan_all(f, t) ==
    IF f.pos > Len(t) THEN f
    ELSE scan_all([scan_char(f, t[f.pos]) EXCEPT !.pos = f.pos + 1], t)

RECURSIVE convert_all(_)
convert_all(f) ==
    IF f.item > Len(f.times) THEN [raised |-> FALSE, ret |-> f.sec, warns |-> f.warns]
    ELSE IF convert_raises(f, f.times[f.item])
         THEN [raised |-> TRUE, ret |-> f.sec, warns |-> f.warns]
         ELSE convert_all([convert_item(f, f.times[f.item]) EXCEPT !.item = f.item + 1])

\* parse_time(time): the returned value, whether ValueError was raised, and
\* the number of warnings issued
parse_time(t) ==
    IF isnumeric(t) THEN [raised |-> FALSE, ret |-> PyStr(t), warns |-> 0]
    ELSE convert_all(catch_last(scan_all(pt_start, t)))

----------------------------------------------------------------------------
(* The call parse_time(time), one loop iteration per step                  *)

\* largest number of (magnitude, unit) pairs in a generated duration text
MaxPairs == 2

Magnitudes == {<<"5">>, <<"2", "0">>}

PairUnits ==
    {<<"u", "s">>, <<"m", "s", "e", "c">>, <<"s", "e", "c">>, <<"s">>,
     <<"m", "i", "n">>, <<"h">>, <<"d", "a", "y">>, <<"w">>, <<"M">>,
     <<"y">>, <<"x", "y", "z">>}

\* texts that are not a list of pairs, with the "." that is neither
\* numeric nor alphabetic
OtherTexts ==
    {<<>>, <<"9", "0">>, <<"s">>, <<"m", "i", "n">>, <<" ", "5">>,
     <<"1", ".", "5", "s">>, <<"i", "n", "f", "i", "n", "i", "t", "y">>}

RECURSIVE render(_, _)
render(pairs, sep) ==
    IF pairs = <<>> THEN <<>>
    ELSE IF Len(pairs) = 1 THEN pairs[1][1] \o pairs[1][2]
    ELSE pairs[1][1] \o pairs[1][2] \o sep \o render(Tail(pairs), sep)

PairLists ==
    UNION {[1..n -> Magnitudes \X PairUnits] : n \in 1..MaxPairs}
    \cup {<<<<m, u>>>> : m \in Magnitudes, u \in KnownUnits}

TimeIdle ==
    /\ time = <<>>
    /\ time_pairs = <<>>
    /\ tpc = "idle"
    /\ pt = pt_start
    /\ tret = PyInt(ZeroNum)

MapIdle ==
    /\ input_map = <<>>
    /\ idx = 1
    /\ output_map = <<>>
    /\ comments = <<>>
    /\ is_pidfile = 0
    /\ has_type = FALSE
    /\ pc = "idle"
    /\ alias_files = {}
    /\ target = [written |-> FALSE, lines |-> <<>>]
    /\ warnings = <<>>

InitTime ==
    /\ MapIdle
    /\ \/ \E pairs \in PairLists, sep \in {<<>>, <<" ">>} :
             /\ time_pairs = pairs
             /\ time = render(pairs, sep)
       \/ /\ time_pairs = <<>>
          /\ time \in OtherTexts
    /\ tpc = "entry"
    /\ pt = pt_start
    /\ tret = PyInt(ZeroNum)

PT_ReturnNumeric ==
    /\ tpc = "entry"
    /\ isnumeric(time)
    /\ tret' = PyStr(time)
    /\ tpc' = "returned"
    /\ UNCHANGED <<time, time_pairs, pt>>
    /\ UNCHANGED mapvars

PT_Begin ==
    /\ tpc = "entry"
    /\ ~isnumeric(time)
    /\ pt' = pt_start
    /\ tpc' = "scan"
    /\ UNCHANGED <<time, time_pairs, tret>>
    /\ UNCHANGED mapvars

PT_ScanChar ==
    /\ tpc = "scan"
    /\ pt.pos <= Len(time)
    /\ pt' = [scan_char(pt, time[pt.pos]) EXCEPT !.pos = pt.pos + 1]
    /\ UNCHANGED <<time, time_pairs, tpc, tret>>
    /\ UNCHANGED mapvars

PT_CatchLast ==
    /\ tpc = "scan"
    /\ pt.pos > Len(time)
    /\ pt' = catch_last(pt)
    /\ tpc' = "convert"
    /\ UNCHANGED <<time, time_pairs, tret>>
    /\ UNCHANGED mapvars

PT_Convert ==
    /\ tpc = "convert"
    /\ pt.item <= Len(pt.times)
    /\ ~convert_raises(pt, pt.times[pt.item])
    /\ pt' = [convert_item(pt, pt.times[pt.item]) EXCEPT !.item = pt.item + 1]
    /\ UNCHANGED <<time, time_pairs, tpc, tret>>
    /\ UNCHANGED mapvars

PT_ValueError ==
    /\ tpc = "convert"
    /\ pt.item <= Len(pt.times)
    /\ convert_raises(pt, pt.times[pt.item])
    /\ tpc' = "raised"
    /\ UNCHANGED <<time, time_pairs, pt, tret>>
    /\ UNCHANGED mapvars

PT_Return ==
    /\ tpc = "convert"
    /\ pt.item > Len(pt.times)
    /\ tret' = pt.sec
    /\ tpc' = "returned"
    /\ UNCHANGED <<time, time_pairs, pt>>
    /\ UNCHANGED mapvars

NextTime ==
    \/ PT_ReturnNumeric
    \/ PT_Begin
    \/ PT_ScanChar
    \/ PT_CatchLast
    \/ PT_Convert
    \/ PT_ValueError
    \/ PT_Return

SpecTime == InitTime /\ [][NextTime]_vars

\* the step-wise call and the operator parse_time agree
TimeStepsAgree ==
    /\ tpc = "returned" => (~parse_time(time).raised /\ tret = parse_time(time).ret
                             /\ (tret.kind # "str" => pt.warns = parse_time(time).warns))
    /\ tpc = "raised" => parse_time(time).raised

----------------------------------------------------------------------------
(* Properties of parse_time                                                *)

RECURSIVE PairSum(_)
PairSum(pairs) ==
    IF pairs = <<>> THEN ZeroNum
    ELSE LET fac == UnitFactor(pairs[1][2])
         IN  NumAdd(NumScale(digits_value(pairs[1][1]), fac[1], fac[2]),
                    PairSum(Tail(pairs)))

RecognizedPairs ==
    /\ time_pairs # <<>>
    /\ \A k \in 1..Len(time_pairs) : time_pairs[k][2] \in KnownUnits

\* C1: for a text of one or more (integer magnitude, recognized unit) pairs,
\* with or without spaces between the pairs, parse_time returns the sum over
\* the pairs of each pair's own magnitude times the factor of its unit.
C1_SumOfOwnMagnitudes ==
    (tpc \in {"returned", "raised"} /\ RecognizedPairs)
        => /\ tpc = "returned"
           /\ tret.kind = "float"
           /\ tret.num = PairSum(time_pairs)

\* a single pair is converted with its own magnitude
SinglePairOwnMagnitude ==
    (tpc \in {"returned", "raised"} /\ RecognizedPairs /\ Len(time_pairs) = 1)
        => /\ tpc = "returned"
           /\ tret.num = PairSum(time_pairs)

----------------------------------------------------------------------------
(* String literals of the mapping pass                                     *)

s_infinity == <<"i", "n", "f", "i", "n", "i", "t", "y">>

s_TimeoutSec == <<"T", "i", "m", "e", "o", "u", "t", "S", "e", "c">>

s_true == <<"t", "r", "u", "e">>

s_false == <<"f", "a", "l", "s", "e">>

s_simple == <<"s", "i", "m", "p", "l", "e">>

s_exec == <<"e", "x", "e", "c">>

s_forking == <<"f", "o", "r", "k", "i", "n", "g">>

s_oneshot == <<"o", "n", "e", "s", "h", "o", "t">>

s_notify == <<"n", "o", "t", "i", "f", "y">>

s_dbus == <<"d", "b", "u", "s">>

s_process == <<"p", "r", "o", "c", "e", "s", "s">>

s_bgprocess == <<"b", "g", "p", "r", "o", "c", "e", "s", "s">>

s_scripted == <<"s", "c", "r", "i", "p", "t", "e", "d">>

\* the signal names dinit accepts
SignalWhitelist ==
    {<<"H", "U", "P">>,
     <<"I", "N", "T">>,
     <<"Q", "U", "I", "T">>,
     <<"K", "I", "L", "L">>,
     <<"U", "S", "R", "1">>,
     <<"U", "S", "R", "2">>,
     <<"T", "E", "R", "M">>,
     <<"C", "O", "N", "T">>,
     <<"S", "T", "O", "P">>,
     <<"I", "N", "F", "O">>}

\* signal.Signals: the names and numbers of the platform (Linux), in part
Signals ==
    {<<<<"S", "I", "G", "H", "U", "P">>, 1>>,
     <<<<"S", "I", "G", "I", "N", "T">>, 2>>,
     <<<<"S", "I", "G", "Q", "U", "I", "T">>, 3>>,
     <<<<"S", "I", "G", "A", "B", "R", "T">>, 6>>,
     <<<<"S", "I", "G", "K", "I", "L", "L">>, 9>>,
     <<<<"S", "I", "G", "U", "S", "R", "1">>, 10>>,
     <<<<"S", "I", "G", "S", "E", "G", "V">>, 11>>,
     <<<<"S", "I", "G", "U", "S", "R", "2">>, 12>>,
     <<<<"S", "I", "G", "P", "I", "P", "E">>, 13>>,
     <<<<"S", "I", "G", "A", "L", "R", "M">>, 14>>,
     <<<<"S", "I", "G", "T", "E", "R", "M">>, 15>>,
     <<<<"S", "I", "G", "C", "H", "L", "D">>, 17>>,
     <<<<"S", "I", "G", "C", "O", "N", "T">>, 18>>,
     <<<<"S", "I", "G", "S", "T", "O", "P">>, 19>>,
     <<<<"S", "I", "G", "T", "S", "T", "P">>, 20>>,
     <<<<"S", "I", "G", "W", "I", "N", "C", "H">>, 28>>}

----------------------------------------------------------------------------
(* The mapping pass: "for expr in input_map", then the fall-back type and  *)
(* the writing of the target file                                          *)

systemd_ref_map ==
    {"Documentation", "Group", "Type", "Description", "Wants", "Requires",
     "Requisite", "BindsTo", "PartOf", "Upholds", "Before", "After",
     "OnSuccess", "StartLimitBurst", "StartLimitIntervalSec", "Alias",
     "WantedBy", "RequiredBy", "UpheldBy", "PIDFile", "ExecStart", "ExecStop",
     "TimeoutStartSec", "TimeoutStopSec", "TimeoutSec", "Restart",
     "EnvironmentFile", "User", "WorkingDirectory", "LimitCORE", "LimitDATA",
     "LimitNOFILE", "UtmpIdentifier", "KillSignal"}

\* the keys with a case of their own in "match expr.key"
HandledKeys ==
    {"Documentation", "Description", "Type", "ExecStart", "ExecStop", "Wants",
     "UpHolds", "Requires", "Requisite", "BindsTo", "PartOf", "WantedBy",
     "RequiredBy", "UpheldBy", "Before", "After", "Alias", "OnSuccess",
     "StartLimitBurst", "StartLimitIntervalSec", "PIDFile", "EnvironmentFile",
     "Restart", "TimeoutStartSec", "TimeoutStopSec", "TimeoutSec", "User",
     "Group", "WorkingDirectory", "LimitCORE", "LimitNOFILE", "LimitDATA",
     "UtmpIdentifier", "KillSignal"}

\* "Start" in key, for the keys of the program
contains_Start(key) ==
    key \in {"ExecStart", "StartLimitBurst", "StartLimitIntervalSec",
             "TimeoutStartSec"}

\* the current entry of the loop is in the vocabulary and has key k
AtKey(keys) ==
    /\ pc = "loop"
    /\ idx <= Len(input_map)
    /\ input_map[idx].key \in systemd_ref_map
    /\ input_map[idx].key \in keys

expr == input_map[idx]

\* n copies of a warning
RECURSIVE repeat(_, _)
repeat(w, n) == IF n = 0 THEN <<>> ELSE <<w>> \o repeat(w, n - 1)

\* one output directive per element of a space separated list
RECURSIVE directives(_, _)
directives(k, toks) ==
    IF toks = <<>> THEN <<>>
    ELSE <<kv(k, PyStr(Head(toks)))>> \o directives(k, Tail(toks))

\* the rest of the iteration: the entry appended dirs and issued warns
Advance(dirs, warns) ==
    /\ output_map' = output_map \o dirs
    /\ warnings' = warnings \o warns
    /\ idx' = idx + 1
    /\ UNCHANGED <<input_map, pc>>
    /\ UNCHANGED timevars

\* an uncaught exception ends the program
Raise(exc, warns) ==
    /\ pc' = exc
    /\ warnings' = warnings \o warns
    /\ UNCHANGED <<input_map, idx, output_map, comments, is_pidfile, has_type,
                   target>>
    /\ UNCHANGED timevars

SkipUnknown ==
    /\ pc = "loop"
    /\ idx <= Len(input_map)
    /\ expr.key \notin systemd_ref_map
    /\ Advance(<<>>, <<"unknown-key">>)
    /\ UNCHANGED <<comments, is_pidfile, has_type, alias_files, target>>

MapDocumentation ==
    /\ AtKey({"Documentation"})
    /\ Advance(<<>>, <<>>)
    /\ UNCHANGED <<comments, is_pidfile, has_type, alias_files, target>>

MapDescription ==
    /\ AtKey({"Description"})
    /\ comments' = Append(comments, [kind |-> "description", text |-> expr.value])
    /\ Advance(<<>>, <<>>)
    /\ UNCHANGED <<is_pidfile, has_type, alias_files, target>>

\* the directive of a Type value, if it has one
type_directives(v) ==
    IF v \in {s_simple, s_exec} THEN <<kv("type", PyStr(s_process))>>
    ELSE IF v = s_forking THEN <<kv("type", PyStr(s_bgprocess))>>
    ELSE IF v = s_oneshot THEN <<kv("type", PyStr(s_scripted))>>
    ELSE IF v = s_notify THEN <<kv("type", PyStr(s_process))>>
    ELSE <<>>

\* is_pidfile after a Type entry
type_is_pidfile(v, old) == IF v = s_forking THEN 1 ELSE old

MapType ==
    /\ AtKey({"Type"})
    /\ IF expr.value = s_dbus
       THEN /\ pc' = "exited"
            /\ UNCHANGED <<input_map, idx, output_map, comments, is_pidfile,
                           has_type, alias_files, target, warnings>>
            /\ UNCHANGED timevars
       ELSE /\ Advance(type_directives(expr.value),
                       IF expr.value = s_notify THEN <<"notify">> ELSE <<>>)
            /\ is_pidfile' = type_is_pidfile(expr.value, is_pidfile)
            /\ has_type' = TRUE
            /\ UNCHANGED <<comments, alias_files, target>>

\* an entry whose value is passed through to one directive
PassThrough(outkey) ==
    /\ Advance(<<kv(outkey, PyStr(expr.value))>>, <<>>)
    /\ UNCHANGED <<comments, is_pidfile, has_type, alias_files, target>>

MapExecStart ==
    /\ AtKey({"ExecStart"})
    /\ PassThrough("command")

MapExecStop ==
    /\ AtKey({"ExecStop"})
    /\ PassThrough("stop-command")

\* the output key of a list-valued key, "" when the key has no case
list_target(k) ==
    IF k \in {"Wants", "UpHolds"} THEN "waits-for"
    ELSE IF k \in {"Requires", "Requisite", "BindsTo", "PartOf"} THEN "depends-on"
    ELSE IF k \in {"WantedBy", "RequiredBy", "UpheldBy", "Before"} THEN "before"
    ELSE IF k = "After" THEN "after"
    ELSE ""

FanOut(warns) ==
    /\ Advance(directives(list_target(expr.key), split(expr.value)), warns)
    /\ UNCHANGED <<comments, is_pidfile, has_type, alias_files, target>>

MapWants ==
    /\ AtKey({"Wants", "UpHolds"})
    /\ FanOut(<<>>)

MapRequires ==
    /\ AtKey({"Requires", "Requisite", "BindsTo", "PartOf"})
    /\ FanOut(<<>>)

MapWantedBy ==
    /\ AtKey({"WantedBy", "RequiredBy", "UpheldBy"})
    /\ FanOut(<<>>)

MapBefore ==
    /\ AtKey({"Before"})
    /\ FanOut(<<"before">>)

MapAfter ==
    /\ AtKey({"After"})
    /\ FanOut(<<"after">>)

\* the alias files opened before open("") raises, and whether it raises
RECURSIVE alias_written(_)
alias_written(toks) ==
    IF toks = <<>> \/ Head(toks) = <<>> THEN {}
    ELSE {Head(toks)} \cup alias_written(Tail(toks))

alias_raises(toks) == \E k \in 1..Len(toks) : toks[k] = <<>>

MapAlias ==
    /\ AtKey({"Alias"})
    /\ alias_files' = alias_files \cup alias_written(split(expr.value))
    /\ IF alias_raises(split(expr.value))
       THEN Raise("FileNotFoundError", <<>>)
       ELSE /\ Advance(<<>>, <<>>)
            /\ UNCHANGED <<comments, is_pidfile, has_type, target>>

\* the first iteration over split() reads the undefined name sdep
MapOnSuccess ==
    /\ AtKey({"OnSuccess"})
    /\ Len(split(expr.value)) > 0
    /\ Raise("NameError", <<>>)
    /\ UNCHANGED alias_files

MapStartLimitBurst ==
    /\ AtKey({"StartLimitBurst"})
    /\ PassThrough("restart-limit-count")

MapStartLimitIntervalSec ==
    /\ AtKey({"StartLimitIntervalSec"})
    /\ PassThrough("restart-limit-interval")

MapPIDFile ==
    /\ AtKey({"PIDFile"})
    /\ Advance(<<kv("pid-file", PyStr(expr.value))>>, <<>>)
    /\ is_pidfile' = 2
    /\ UNCHANGED <<comments, has_type, alias_files, target>>

MapEnvironmentFile ==
    /\ AtKey({"EnvironmentFile"})
    /\ PassThrough("env-file")

MapRestart ==
    /\ AtKey({"Restart"})
    /\ Advance(IF expr.value = s_true \/ expr.value = s_false
               THEN <<kv("restart", PyStr(expr.value))>> ELSE <<>>, <<>>)
    /\ UNCHANGED <<comments, is_pidfile, has_type, alias_files, target>>

\* the entry is treated as the combined time-out
timeout_is_combined(e) == e.value = s_TimeoutSec

\* the directives of a time-out entry whose value was computed as t
timeout_directives(e, t) ==
    IF timeout_is_combined(e)
    THEN <<kv("start-timeout", t), kv("stop-timeout", t)>>
    ELSE IF contains_Start(e.key) THEN <<kv("start-timeout", t)>>
    ELSE <<kv("stop-timeout", t)>>

MapTimeout ==
    /\ AtKey({"TimeoutStartSec", "TimeoutStopSec", "TimeoutSec"})
    /\ UNCHANGED alias_files
    /\ IF expr.value = s_infinity
       THEN /\ Advance(timeout_directives(expr, PyInt(ZeroNum)), <<>>)
            /\ UNCHANGED <<comments, is_pidfile, has_type, target>>
       ELSE LET r == parse_time(expr.value)
            IN  IF r.raised
                THEN Raise("ValueError", repeat("time", r.warns))
                ELSE /\ Advance(timeout_directives(expr, r.ret),
                                repeat("time", r.warns))
                     /\ UNCHANGED <<comments, is_pidfile, has_type, target>>

\* the user combined with the first Group entry of the unit
run_as_value_grouped(e) ==
    IF \E k \in 1..Len(input_map) : input_map[k].key = "Group"
    THEN PyStr(e.value \o <<":">> \o
               input_map[CHOOSE k \in 1..Len(input_map) :
                             /\ input_map[k].key = "Group"
                             /\ \A j \in 1..(k - 1) : input_map[j].key # "Group"].value)
    ELSE PyStr(e.value)

\* STR = f'{expr.value}'
run_as_value(e) == PyStr(e.value)

MapUser ==
    /\ AtKey({"User"})
    /\ Advance(<<kv("run-as", run_as_value(expr))>>, <<>>)
    /\ UNCHANGED <<comments, is_pidfile, has_type, alias_files, target>>

MapGroup ==
    /\ AtKey({"Group"})
    /\ Advance(<<>>, <<"group", "group-sub">>)
    /\ UNCHANGED <<comments, is_pidfile, has_type, alias_files, target>>

MapWorkingDirectory ==
    /\ AtKey({"WorkingDirectory"})
    /\ PassThrough("working-dir")

MapLimitCORE ==
    /\ AtKey({"LimitCORE"})
    /\ PassThrough("rlimit-core")

MapLimitNOFILE ==
    /\ AtKey({"LimitNOFILE"})
    /\ PassThrough("rlimit-nofile")

MapLimitDATA ==
    /\ AtKey({"LimitDATA"})
    /\ PassThrough("rlimit-data")

MapUtmpIdentifier ==
    /\ AtKey({"UtmpIdentifier"})
    /\ PassThrough("inittab-line")

\* SIG after the inner match: "" when nothing was found
resolve_SIG(v) ==
    IF removeprefix_SIG(v) \in SignalWhitelist THEN PyStr(removeprefix_SIG(v))
    ELSE IF \E sg \in Signals : sg[1] = v
         THEN PyInt(<<0, (CHOOSE sg \in Signals : sg[1] = v)[2], 0>>)
         ELSE PyStr(<<>>)

\* truth value of SIG
truthy(x) == IF x.kind = "str" THEN x.text # <<>> ELSE x.num # ZeroNum

\* the value of the term-signal directive
term_signal_value(v) == PyStr(v)

MapKillSignal ==
    /\ AtKey({"KillSignal"})
    /\ LET SIG == resolve_SIG(expr.value)
           w1 == IF removeprefix_SIG(expr.value) \in SignalWhitelist
                 THEN <<>> ELSE <<"sig-unrecognized">>
       IN  IF truthy(SIG)
           THEN Advance(<<kv("term-signal", term_signal_value(expr.value))>>,
                        w1 \o <<"sig-resolved">>)
           ELSE Advance(<<>>, w1 \o <<"sig-cannot">>)
    /\ UNCHANGED <<comments, is_pidfile, has_type, alias_files, target>>

\* "case _": a key of the vocabulary without a case
NotImplemented ==
    /\ AtKey(systemd_ref_map \ HandledKeys)
    /\ Advance(<<>>, <<>>)
    /\ UNCHANGED <<comments, is_pidfile, has_type, alias_files, target>>

\* the fall-back type appended whatever has_type is
fallback_always(ht) == TRUE

\* the fall-back type is appended
fallback_fires(ht) == ~ht

\* end of the loop and "if not has_type"
Finalize ==
    /\ pc = "loop"
    /\ idx > Len(input_map)
    /\ output_map' = IF fallback_fires(has_type)
                     THEN Append(output_map, kv("type", PyStr(s_process)))
                     ELSE output_map
    /\ pc' = "write"
    /\ UNCHANGED <<input_map, idx, comments, is_pidfile, has_type, alias_files,
                   target, warnings>>
    /\ UNCHANGED timevars

RECURSIVE directive_lines(_)
directive_lines(dirs) ==
    IF dirs = <<>> THEN <<>>
    ELSE <<[kind |-> "directive", text |-> <<>>, dir |-> Head(dirs)]>>
         \o directive_lines(Tail(dirs))

RECURSIVE comment_lines(_)
comment_lines(cms) ==
    IF cms = <<>> THEN <<>>
    ELSE <<[kind |-> Head(cms).kind, text |-> Head(cms).text,
            dir |-> kv("", PyStr(<<>>))]>>
         \o comment_lines(Tail(cms))

CaveatLine == [kind |-> "no-pidfile-caveat", text |-> <<>>, dir |-> kv("", PyStr(<<>>))]

\* the target file is written
WriteTarget ==
    /\ pc = "write"
    /\ target' = [written |-> TRUE,
                  lines |-> comment_lines(comments) \o directive_lines(output_map)
                            \o (IF is_pidfile = 1 THEN <<CaveatLine>> ELSE <<>>)]
    /\ warnings' = warnings \o (IF is_pidfile = 1 THEN <<"no-pidfile">> ELSE <<>>)
    /\ pc' = "done"
    /\ UNCHANGED <<input_map, idx, output_map, comments, is_pidfile, has_type,
                   alias_files>>
    /\ UNCHANGED timevars

----------------------------------------------------------------------------
(* The unit files of the model: input_map after the unit file was read     *)

\* largest number of key=value lines of a unit file
MaxEntries == 2

Entries ==
    {kv("Documentation", <<"m", "a", "n">>),
     kv("Description", <<"s", "v", "c">>),
     kv("Type", <<"s", "i", "m", "p", "l", "e">>),
     kv("Type", <<"e", "x", "e", "c">>),
     kv("Type", <<"f", "o", "r", "k", "i", "n", "g">>),
     kv("Type", <<"o", "n", "e", "s", "h", "o", "t">>),
     kv("Type", <<"n", "o", "t", "i", "f", "y">>),
     kv("Type", <<"d", "b", "u", "s">>),
     kv("Type", <<"i", "d", "l", "e">>),
     kv("ExecStart", <<"/", "a">>),
     kv("ExecStop", <<"/", "b">>),
     kv("Wants", <<"a", " ", "b", " ", "c">>),
     kv("Upholds", <<"a", " ", "b", " ", "c">>),
     kv("UpHolds", <<"a", " ", "b", " ", "c">>),
     kv("Requires", <<"a", " ", "b", " ", "c">>),
     kv("Requisite", <<"a", " ", "b", " ", "c">>),
     kv("BindsTo", <<"a", " ", "b", " ", "c">>),
     kv("PartOf", <<"a", " ", "b", " ", "c">>),
     kv("WantedBy", <<"a", " ", "b", " ", "c">>),
     kv("RequiredBy", <<"a", " ", "b", " ", "c">>),
     kv("UpheldBy", <<"a", " ", "b", " ", "c">>),
     kv("Before", <<"a", " ", "b", " ", "c">>),
     kv("After", <<"a", " ", "b", " ", "c">>),
     kv("OnSuccess", <<"a", " ", "b", " ", "c">>),
     kv("Wants", <<"a">>),
     kv("After", <<"a", " ", " ", "b">>),
     kv("Alias", <<"x", " ", "y">>),
     kv("Alias", <<"x", " ", " ", "y">>),
     kv("StartLimitBurst", <<"3">>),
     kv("StartLimitIntervalSec", <<"5", "m", "i", "n">>),
     kv("PIDFile", <<"/", "p">>),
     kv("EnvironmentFile", <<"/", "e">>),
     kv("Restart", <<"t", "r", "u", "e">>),
     kv("Restart", <<"a", "l", "w", "a", "y", "s">>),
     kv("TimeoutStartSec", <<"i", "n", "f", "i", "n", "i", "t", "y">>),
     kv("TimeoutStartSec", <<"5", "m", "i", "n", " ", "2", "0", "s", "e", "c">>),
     kv("TimeoutStartSec", <<"9", "0">>),
     kv("TimeoutStartSec", <<"T", "i", "m", "e", "o", "u", "t", "S", "e", "c">>),
     kv("TimeoutStartSec", <<"s">>),
     kv("TimeoutStartSec", <<"2", "h">>),
     kv("TimeoutStopSec", <<"i", "n", "f", "i", "n", "i", "t", "y">>),
     kv("TimeoutStopSec", <<"5", "m", "i", "n", " ", "2", "0", "s", "e", "c">>),
     kv("TimeoutStopSec", <<"9", "0">>),
     kv("TimeoutStopSec", <<"T", "i", "m", "e", "o", "u", "t", "S", "e", "c">>),
     kv("TimeoutStopSec", <<"s">>),
     kv("TimeoutStopSec", <<"2", "h">>),
     kv("TimeoutSec", <<"i", "n", "f", "i", "n", "i", "t", "y">>),
     kv("TimeoutSec", <<"5", "m", "i", "n", " ", "2", "0", "s", "e", "c">>),
     kv("TimeoutSec", <<"9", "0">>),
     kv("TimeoutSec", <<"T", "i", "m", "e", "o", "u", "t", "S", "e", "c">>),
     kv("TimeoutSec", <<"s">>),
     kv("TimeoutSec", <<"2", "h">>),
     kv("User", <<"a", "l", "i", "c", "e">>),
     kv("Group", <<"s", "t", "a", "f", "f">>),
     kv("WorkingDirectory", <<"/", "w">>),
     kv("LimitCORE", <<"1">>),
     kv("LimitNOFILE", <<"2">>),
     kv("LimitDATA", <<"3">>),
     kv("UtmpIdentifier", <<"t">>),
     kv("KillSignal", <<"S", "I", "G", "T", "E", "R", "M">>),
     kv("KillSignal", <<"H", "U", "P">>),
     kv("KillSignal", <<"S", "I", "G", "W", "I", "N", "C", "H">>),
     kv("KillSignal", <<"W", "I", "N", "C", "H">>),
     kv("KillSignal", <<"S", "I", "G", "I", "N", "F", "O">>),
     kv("KillSignal", <<"S", "I", "G", "F", "O", "O">>),
     kv("Foo", <<"b", "a", "r">>)}

Init ==
    /\ input_map \in UNION {[1..n -> Entries] : n \in 0..MaxEntries}
    /\ idx = 1
    /\ output_map = <<>>
    /\ comments = <<>>
    /\ is_pidfile = 0
    /\ has_type = FALSE
    /\ pc = "loop"
    /\ alias_files = {}
    /\ target = [written |-> FALSE, lines |-> <<>>]
    /\ warnings = <<>>
    /\ TimeIdle

Next ==
    \/ SkipUnknown
    \/ MapDocumentation
    \/ MapDescription
    \/ MapType
    \/ MapExecStart
    \/ MapExecStop
    \/ MapWants
    \/ MapRequires
    \/ MapWantedBy
    \/ MapBefore
    \/ MapAfter
    \/ MapAlias
    \/ MapOnSuccess
    \/ MapStartLimitBurst
    \/ MapStartLimitIntervalSec
    \/ MapPIDFile
    \/ MapEnvironmentFile
    \/ MapRestart
    \/ MapTimeout
    \/ MapUser
    \/ MapGroup
    \/ MapWorkingDirectory
    \/ MapLimitCORE
    \/ MapLimitNOFILE
    \/ MapLimitDATA
    \/ MapUtmpIdentifier
    \/ MapKillSignal
    \/ NotImplemented
    \/ Finalize
    \/ WriteTarget

Spec == Init /\ [][Next]_vars

TypeOK ==
    /\ idx \in 1..(Len(input_map) + 1)
    /\ is_pidfile \in {0, 1, 2}
    /\ has_type \in BOOLEAN
    /\ pc \in {"loop", "write", "done", "exited", "NameError", "ValueError",
               "FileNotFoundError"}
    /\ target.written = (pc = "done")

----------------------------------------------------------------------------
(* Properties of the mapping pass                                          *)

HasKey(k) == \E n \in 1..Len(input_map) : input_map[n].key = k

HasEntry(k, v) ==
    \E n \in 1..Len(input_map) : input_map[n].key = k /\ input_map[n].value = v

\* the loop is at an entry with one of the keys, in the vocabulary or not
AtEntry(keys) ==
    /\ pc = "loop"
    /\ idx <= Len(input_map)
    /\ input_map[idx].key \in keys

\* the values of the output directives with key k, in order
RECURSIVE values_of(_, _)
values_of(k, dirs) ==
    IF dirs = <<>> THEN <<>>
    ELSE (IF Head(dirs).key = k THEN <<Head(dirs).value>> ELSE <<>>)
         \o values_of(k, Tail(dirs))

\* the values of the input entries with key k, as Python strings, in order
RECURSIVE input_values(_, _)
input_values(k, inp) ==
    IF inp = <<>> THEN <<>>
    ELSE (IF Head(inp).key = k THEN <<PyStr(Head(inp).value)>> ELSE <<>>)
         \o input_values(k, Tail(inp))

\* C2: for every input with Type=forking, the written output ends with the
\* missing-pid-file caveat if and only if the input has no PIDFile entry,
\* whatever the position of the PIDFile entry.
C2_CaveatIffNoPIDFile ==
    (pc = "done" /\ HasEntry("Type", s_forking))
        => ((/\ target.lines # <<>>
             /\ target.lines[Len(target.lines)] = CaveatLine)
            <=> ~HasKey("PIDFile"))

\* C3 as stated: with one User=u and one Group=g entry, in either order, the
\* output has exactly one run-as directive and its value is u:g; without a
\* Group entry the value is u.
C3_CompositeRunAs ==
    (pc = "done" /\ Len(input_values("User", input_map)) = 1
                 /\ Len(input_values("Group", input_map)) <= 1)
        => LET u == input_values("User", input_map)[1].text
               g == input_values("Group", input_map)
           IN  values_of("run-as", output_map) =
                   <<PyStr(IF g = <<>> THEN u ELSE u \o <<":">> \o g[1].text)>>

\* C3 amended: the run-as directives of the output are the User entries of
\* the input, one each and in order, each with the user alone as its value,
\* whether or not a Group entry comes before or after it.
C3_RunAsIsUserAlone ==
    pc = "done" => values_of("run-as", output_map) = input_values("User", input_map)

\* a finished run whose unit has a User entry followed by a Group entry
C3_Witness ==
    /\ pc = "done"
    /\ \E m, n \in 1..Len(input_map) :
          m < n /\ input_map[m].key = "User" /\ input_map[n].key = "Group"
    /\ Len(values_of("run-as", output_map)) = 1

TimeoutKeys == {"TimeoutStartSec", "TimeoutStopSec", "TimeoutSec"}

\* the value computed for a time-out entry
timeout_value(e) ==
    IF e.value = s_infinity THEN PyInt(ZeroNum) ELSE parse_time(e.value).ret

\* C4: a TimeoutSec entry appends a start-timeout and a stop-timeout with the
\* same computed value, a TimeoutStartSec entry only start-timeout and a
\* TimeoutStopSec entry only stop-timeout; the key decides, never the value,
\* and infinity gives 0.
C4_TimeoutDecidedByKey ==
    [][(AtEntry(TimeoutKeys) /\ pc' = "loop")
         => output_map' = output_map \o
               (IF expr.key = "TimeoutSec"
                THEN <<kv("start-timeout", timeout_value(expr)),
                       kv("stop-timeout", timeout_value(expr))>>
                ELSE IF expr.key = "TimeoutStartSec"
                     THEN <<kv("start-timeout", timeout_value(expr))>>
                     ELSE <<kv("stop-timeout", timeout_value(expr))>>)]_vars

ListKeys ==
    {"Wants", "Upholds", "Requires", "Requisite", "BindsTo", "PartOf",
     "WantedBy", "RequiredBy", "UpheldBy", "Before", "After", "OnSuccess"}

\* the target key the claim gives for a list-valued key
claimed_target(k) ==
    IF k \in {"Wants", "Upholds"} THEN "waits-for"
    ELSE IF k \in {"Requires", "Requisite", "BindsTo", "PartOf"} THEN "depends-on"
    ELSE IF k \in {"WantedBy", "RequiredBy", "UpheldBy", "Before"} THEN "before"
    ELSE IF k = "After" THEN "after"
    ELSE "chain-to"

\* the value is tokens separated by single spaces
SingleSpaced(v) == \A n \in 1..Len(split(v)) : split(v)[n] # <<>>

\* C5: an entry of a list-valued key whose value is n tokens separated by
\* single spaces appends exactly n directives, one per token and in token
\* order, all with the target key of that key.
C5_FanOut ==
    [][(AtEntry(ListKeys) /\ SingleSpaced(expr.value))
         => /\ pc' = "loop"
            /\ output_map' = output_map \o
                  directives(claimed_target(expr.key), split(expr.value))]_vars

\* C6: when the input has a Type=dbus entry, at any position, the run ends
\* other than by normal completion and leaves no artifact: the target file is
\* never written and no alias file has been written.
C6_DbusLeavesNothing ==
    HasEntry("Type", s_dbus)
        => /\ pc # "done"
           /\ ~target.written
           /\ alias_files = {}

\* C7: when the input has no Type=dbus entry the pass is never aborted,
\* whatever the keys and values: it visits every entry, finalizes and writes.
C7_OnlyDbusIsFatal ==
    ~HasEntry("Type", s_dbus) => pc \in {"loop", "write", "done"}

MappedTypeValues == {s_simple, s_exec, s_forking, s_oneshot, s_notify}

TypePositions == {n \in 1..Len(output_map) : output_map[n].key = "type"}

\* C8: a finalized output of an input without Type entry has exactly one
\* type directive, it is type = process and it is the last directive; when
\* the input has a Type entry the fall-back is not appended, so the type
\* directives are no more than the Type entries that were mapped.
C8_TypeFallback ==
    pc \in {"write", "done"}
        => IF ~HasKey("Type")
           THEN /\ TypePositions = {Len(output_map)}
                /\ output_map[Len(output_map)] = kv("type", PyStr(s_process))
           ELSE Cardinality(TypePositions) =
                   Cardinality({n \in 1..Len(input_map) :
                                   /\ input_map[n].key = "Type"
                                   /\ input_map[n].value \in MappedTypeValues})

\* a written output without Type entry in which the fall-back follows
\* directives that came from input entries
C8_Witness ==
    /\ pc = "done"
    /\ ~HasKey("Type")
    /\ Len(output_map) >= 2
    /\ target.written

\* C9: has_type is true only when the output already has a type directive,
\* so a Type entry with an unmapped value leaves it false and every
\* finalized output has a type directive.
C9_HasTypeImpliesTypeDirective ==
    has_type => TypePositions # {}

\* C10: with r the value without a leading SIG: r in the whitelist gives one
\* term-signal directive with value r; otherwise a value that is a platform
\* signal name gives one term-signal directive with the number of the signal;
\* otherwise no directive and a warning.
C10_KillSignal ==
    [][AtEntry({"KillSignal"})
         => LET v == expr.value
                r == removeprefix_SIG(v)
            IN  IF r \in SignalWhitelist
                THEN output_map' = Append(output_map, kv("term-signal", PyStr(r)))
                ELSE IF \E sg \in Signals : sg[1] = v
                THEN output_map' = Append(output_map, kv("term-signal",
                         PyInt(<<0, (CHOOSE sg \in Signals : sg[1] = v)[2], 0>>)))
                ELSE /\ output_map' = output_map
                     /\ Len(warnings') > Len(warnings)]_vars

====
